---- MODULE Spec2Model ----
(***************************************************************************)
(* A model of artichoke's Time value semantics:                            *)
(*   - the Time argument normalizer                                        *)
(*       artichoke-backend/src/extn/core/time/args.rs  (try_convert_mut)   *)
(*   - the tzrs-backed Time value                                          *)
(*       spinoso-time/src/time/tzrs/mod.rs  (new, with_timespec_and_offset,*)
(*       From<ToA>, to_int, Hash / PartialEq / Ord), with its arithmetic,  *)
(*       its parts, its ToA and its zone name                              *)
(*                                                                         *)
(* TLC's integers are 32 bits wide.  The values the code handles are i64   *)
(* (Ruby Integers) and i128 (total nanoseconds), so they are kept here as  *)
(* wide integers <<hi, lo>> with 0 <= lo < Limb and value hi * Limb + lo.  *)
(***************************************************************************)
EXTENDS Integers, Sequences, FiniteSets, TLC

VARIABLES
    args,       \* the caller's argument buffer (&mut [Value])
    given,      \* the buffer as it was when try_convert_mut was called
    pc,         \* "call" before try_convert_mut has run, "done" after
    outcome,    \* what try_convert_mut returned (or that it panicked)
    converted,  \* the slice positions (0-based) handed to to_int, in order
    time,       \* the Time made last (NoTime before the first)
    other,      \* the Time made before it
    last        \* the last call on Time: its arguments and how it ended;
                \* a panic unwinds the caller, whose Times are dropped

argVars == <<args, given, pc, outcome, converted>>

timeVars == <<time, other, last>>

vars == <<args, given, pc, outcome, converted, time, other, last>>

(***************************************************************************)
(* Wide integers.                                                          *)
(***************************************************************************)
Limb == 2^16

\* The wide integer of a number TLC can hold.
W(n) == <<n \div Limb, n % Limb>>

WLe(a, b) == a[1] < b[1] \/ (a[1] = b[1] /\ a[2] <= b[2])

WLt(a, b) == a[1] < b[1] \/ (a[1] = b[1] /\ a[2] < b[2])

\* The number of a wide integer that fits 32 bits.
Narrow(w) == w[1] * Limb + w[2]

I32Min == <<-(2^15), 0>>

I32Max == <<2^15 - 1, Limb - 1>>

U32Max == <<2^16 - 1, Limb - 1>>

(***************************************************************************)
(* Ruby values: a class tag and, for an Integer, its i64 value.            *)
(***************************************************************************)
Integer(n) == [t |-> "Integer", v |-> W(n)]

WideInteger(w) == [t |-> "Integer", v |-> w]

Nil == [t |-> "NilClass", v |-> W(0)]

Str == [t |-> "String", v |-> W(0)]

(***************************************************************************)
(* Errors and results.                                                     *)
(***************************************************************************)
NoError == [name |-> "", message |-> ""]

ArgumentError(message) == [name |-> "ArgumentError", message |-> message]

TypeError == [name |-> "TypeError", message |-> "no implicit conversion into Integer"]

\* The all-zero Args a derived Default would give.
ArgsZeroed ==
    [year |-> 0, month |-> 0, day |-> 0, hour |-> 0, minute |-> 0,
     second |-> 0, nanoseconds |-> 0]

\* Args::default()
ArgsDefault ==
    [year |-> 0, month |-> 1, day |-> 1, hour |-> 0, minute |-> 0,
     second |-> 0, nanoseconds |-> 0]

Ok(result) == [kind |-> "Ok", args |-> result, error |-> NoError]

Err(error) == [kind |-> "Err", args |-> ArgsDefault, error |-> error]

\* unreachable!() was executed: the thread panics, nothing is returned.
Panic == [kind |-> "Panic", args |-> ArgsDefault, error |-> NoError]

NotCalled == [kind |-> "None", args |-> ArgsDefault, error |-> NoError]

(***************************************************************************)
(* Integer conversions.                                                    *)
(***************************************************************************)
\* crate::convert::to_int followed by try_convert_into::<Option<i64>>:
\* an Integer gives its i64, anything without an integer conversion fails.
to_int(arg) ==
    IF arg.t = "Integer"
    THEN [ok |-> TRUE, v |-> arg.v, error |-> NoError]
    ELSE [ok |-> FALSE, v |-> W(0), error |-> TypeError]

\* i32::try_from(i64)
i32_try_from(w) ==
    IF WLe(I32Min, w) /\ WLe(w, I32Max)
    THEN [ok |-> TRUE, v |-> Narrow(w)]
    ELSE [ok |-> FALSE, v |-> 0]

\* A cast that keeps the low 8 bits instead of failing.
u8_wrapping(w) == [ok |-> TRUE, v |-> w[2] % 256]

\* u8::try_from(i64)
u8_try_from(w) ==
    IF WLe(W(0), w) /\ WLe(w, W(255))
    THEN [ok |-> TRUE, v |-> Narrow(w)]
    ELSE [ok |-> FALSE, v |-> 0]

\* A cast that keeps the low 32 bits instead of failing.
u32_wrapping(w) == [ok |-> TRUE, v |-> <<w[1] % Limb, w[2]>>]

\* u32::try_from(i64); the u32 stays wide, it may exceed TLC's integers.
u32_try_from(w) ==
    IF WLe(W(0), w) /\ WLe(w, U32Max)
    THEN [ok |-> TRUE, v |-> w]
    ELSE [ok |-> FALSE, v |-> W(0)]

(***************************************************************************)
(* The arms of the match in try_convert_mut's loop.  Each gives            *)
(*   ok: whether the loop goes on,  result: the Args so far,               *)
(*   error: the error returned by `?`,  conv: whether to_int was called.   *)
(***************************************************************************)
Continue(result, conv) == [ok |-> TRUE, result |-> result, error |-> NoError, conv |-> conv]

Return(result, error) == [ok |-> FALSE, result |-> result, error |-> error, conv |-> TRUE]

\* One of the arms 1..5: u8::try_from, then the range pattern lo..=hi.
U8Field(arg, result, field, lo, hi, message) ==
    LET n == to_int(arg)
        b == u8_try_from(n.v)
    IN  IF ~n.ok THEN Return(result, n.error)
        ELSE IF b.ok /\ lo <= b.v /\ b.v <= hi
             THEN Continue([result EXCEPT ![field] = b.v], TRUE)
             ELSE Return(result, ArgumentError(message))

ArmYear(arg, result) ==
    LET n == to_int(arg)
        y == i32_try_from(n.v)
    IN  IF ~n.ok THEN Return(result, n.error)
        ELSE IF y.ok
             THEN Continue([result EXCEPT !.year = y.v], TRUE)
             ELSE Return(result, ArgumentError("year out of range"))

ArmMonth(arg, result) == U8Field(arg, result, "month", 1, 12, "mon out of range")

\* A day arm that knows the month has 29 days at most.
ArmDayOfFebruary(arg, result) ==
    U8Field(arg, result, "day", 1, IF result.month = 2 THEN 29 ELSE 31, "mday out of range")

ArmDay(arg, result) == U8Field(arg, result, "day", 1, 31, "mday out of range")

ArmHour(arg, result) == U8Field(arg, result, "hour", 0, 59, "hour out of range")

ArmMinute(arg, result) == U8Field(arg, result, "minute", 0, 59, "min out of range")

ArmSecond(arg, result) == U8Field(arg, result, "second", 0, 59, "sec out of range")

\* w * k for a small k, exactly.
WTimes(w, k) == <<w[1] * k + (w[2] * k) \div Limb, (w[2] * k) % Limb>>

\* The low 32 bits of a wide integer.
U32Wrap(w) == <<w[1] % Limb, w[2]>>

\* micros * 1000 in u32 arithmetic.
MicrosToNanos(micros) == Narrow(U32Wrap(WTimes(micros, 1000)))

ArmMicros(arg, result) ==
    LET n == to_int(arg)
        m == u32_try_from(n.v)
    IN  IF ~n.ok THEN Return(result, n.error)
        ELSE IF m.ok /\ WLe(W(0), m.v) /\ WLe(m.v, W(999999))
             THEN Continue([result EXCEPT !.nanoseconds = MicrosToNanos(m.v)], TRUE)
             ELSE Return(result, ArgumentError("subsecx out of range"))

\* An eighth arm that converts its argument like the other arms.
ArmEighthConverting(arg, result) ==
    LET n == to_int(arg)
    IN  IF n.ok THEN [ok |-> TRUE, result |-> result, error |-> n.error, conv |-> TRUE]
        ELSE [ok |-> FALSE, result |-> result, error |-> n.error, conv |-> TRUE]

\* The 8th parameter can be anything: NOOP.
ArmEighth(arg, result) == Continue(result, FALSE)

Arm(i, arg, result) ==
    CASE i = 0 -> ArmYear(arg, result)
      [] i = 1 -> ArmMonth(arg, result)
      [] i = 2 -> ArmDay(arg, result)
      [] i = 3 -> ArmHour(arg, result)
      [] i = 4 -> ArmMinute(arg, result)
      [] i = 5 -> ArmSecond(arg, result)
      [] i = 6 -> ArmMicros(arg, result)
      [] i = 7 -> ArmEighth(arg, result)

\* A loop that goes on after a failure and returns the last error.
RECURSIVE LoopToTheEnd(_, _, _, _)
LoopToTheEnd(slice, i, result, conv) ==
    IF i >= Len(slice) \/ i > 7 THEN [outcome |-> Ok(result), converted |-> conv]
    ELSE LET step == Arm(i, slice[i + 1], result)
             rest == LoopToTheEnd(slice, i + 1, step.result,
                                  IF step.conv THEN Append(conv, i) ELSE conv)
         IN  IF step.ok \/ rest.outcome.kind = "Err" THEN rest
             ELSE [outcome |-> Err(step.error), converted |-> rest.converted]

\* for (i, &arg) in args.iter().enumerate() { match i { ... } }, from
\* position i on; conv is the positions converted so far.
RECURSIVE Loop(_, _, _, _)
Loop(slice, i, result, conv) ==
    IF i >= Len(slice) THEN [outcome |-> Ok(result), converted |-> conv]
    ELSE IF i > 7 THEN [outcome |-> Panic, converted |-> conv]
    ELSE LET step == Arm(i, slice[i + 1], result)
             conv2 == IF step.conv THEN Append(conv, i) ELSE conv
         IN  IF step.ok
             THEN Loop(slice, i + 1, step.result, conv2)
             ELSE [outcome |-> Err(step.error), converted |-> conv2]

\* A count check that forgets the 11 argument case.
CountRejectedWithout11(n) == n \in {0, 9}

\* if let 0 | 9 | 11 = args.len()
CountRejected(n) == n \in {0, 9, 11}

CountMessage(n) == "wrong number of arguments (given " \o ToString(n) \o ", expected 1..8)"

\* The whole buffer in reverse order.
Reversed(buf) == [k \in 1..Len(buf) |-> buf[Len(buf) + 1 - k]]

\* args.swap(0, 5); args.swap(1, 4); args.swap(2, 3);
Swapped(buf) ==
    [k \in 1..Len(buf) |-> IF k <= 6 THEN buf[7 - k] ELSE buf[k]]

\* No truncation: the whole buffer goes through the loop.
NotTruncated(buf) == buf

\* args = &mut args[..6];
Truncated(buf) == SubSeq(buf, 1, 6)

\* The whole of try_convert_mut: what it returns, what it leaves in the
\* caller's buffer, and the positions it converted.
try_convert_mut(buf) ==
    IF CountRejected(Len(buf))
    THEN [outcome |-> Err(ArgumentError(CountMessage(Len(buf)))),
          buffer |-> buf, converted |-> <<>>]
    ELSE LET buffer == IF Len(buf) = 10 THEN Swapped(buf) ELSE buf
             slice == IF Len(buf) = 10 THEN Truncated(buffer) ELSE buffer
             run == Loop(slice, 0, ArgsDefault, <<>>)
         IN  [outcome |-> run.outcome, buffer |-> buffer, converted |-> run.converted]

(***************************************************************************)
(* The argument lists the normalizer is called with: the lists of the      *)
(* tests in args.rs (extended with 0s beyond 11 elements), with up to      *)
(* MaxEdits elements in a row replaced by values of Values.                *)
(***************************************************************************)
MaxLen == 12

MaxEdits == 2

\* 2^31, the first i64 above i32
TwoTo31 == <<2^15, 0>>

\* -2^31 - 1, the first i64 below i32
BelowI32 == <<-(2^15) - 1, Limb - 1>>

\* 2^32 + 1: 1 when cut to 32 bits
TwoTo32Plus1 == <<2^16, 1>>

Values ==
    { Integer(n) : n \in {-1, 0, 1, 12, 13, 31, 32, 59, 60, 257, 999999, 1000000} }
    \cup { WideInteger(I32Max), WideInteger(I32Min), WideInteger(TwoTo31),
           WideInteger(BelowI32), WideInteger(TwoTo32Plus1), Nil, Str }

EightParams ==
    <<Integer(2022), Integer(2), Integer(3), Integer(4), Integer(5), Integer(6),
      Integer(7), Nil>>

TenParams ==
    <<Integer(1), Integer(2), Integer(3), Integer(4), Integer(5), Integer(2022),
      Nil, Nil, Nil, Nil>>

TestArgs(n) ==
    IF n <= 8 THEN SubSeq(EightParams, 1, n)
    ELSE IF n = 10 THEN TenParams
    ELSE EightParams \o [k \in 1..(n - 8) |-> Integer(0)]

\* list with the positions of the set at replaced by the values of the
\* function to.
Edited(list, at, to) ==
    [k \in 1..Len(list) |-> IF k \in at THEN to[k] ELSE list[k]]

\* The runs of at most MaxEdits positions of a list of n elements.
EditPositions(n) ==
    { lo..(lo + len - 1) : lo \in 1..(n + 1), len \in 0..MaxEdits } \cap SUBSET (1..n)

(***************************************************************************)
(* The normalizer as a state machine: a caller holds a buffer and calls    *)
(* try_convert_mut on it once.                                             *)
(***************************************************************************)
(***************************************************************************)
(* The Time value: a tz-rs DateTime (unix_time, nanoseconds) and an Offset. *)
(***************************************************************************)
NANOS_IN_SECOND == 1000000000

Utc == [kind |-> "utc", secs |-> 0]

Fixed(secs) == [kind |-> "fixed", secs |-> secs]

\* Offset::tz of a zone with daylight saving time.
Tz == [kind |-> "tz", secs |-> 0]

NoOffset == [kind |-> "none", secs |-> 0]

\* The transitions of the zone behind Tz: UTC+0 at first, clocks forward one
\* hour at 02:00 UTC (local 02:00 becomes 03:00), and back at 05:00 UTC
\* (local 06:00 becomes 05:00).
DstTransitions ==
    << [at |-> 2 * 3600, ut_offset |-> 3600], [at |-> 5 * 3600, ut_offset |-> 0] >>

\* Rules under which every Offset has the transitions of the zone with
\* daylight saving time.
time_zone_ref_with_dst(offset) ==
    [initial |-> offset.secs, transitions |-> DstTransitions]

\* offset.time_zone_ref(): the time zone rules of an Offset.
time_zone_ref(offset) ==
    CASE offset.kind = "utc" -> [initial |-> 0, transitions |-> <<>>]
      [] offset.kind = "fixed" -> [initial |-> offset.secs, transitions |-> <<>>]
      [] offset.kind = "tz" -> [initial |-> 0, transitions |-> DstTransitions]

\* The UTC offset of a zone in its k-th period (the 0-th is before its first
\* transition).
PeriodOffset(tz, k) == IF k = 0 THEN tz.initial ELSE tz.transitions[k].ut_offset

\* The days of the months of a year that is not a leap year.
DaysInMonth == <<31, 28, 31, 30, 31, 30, 31, 31, 30, 31, 30, 31>>

RECURSIVE DaysBeforeMonth(_)
DaysBeforeMonth(month) ==
    IF month = 1 THEN 0 ELSE DaysBeforeMonth(month - 1) + DaysInMonth[month - 1]

\* tz-rs check_date_time_inputs, for the year 1970.
check_date_time_inputs(wall) ==
    /\ wall.month \in 1..12
    /\ wall.day \in 1..DaysInMonth[wall.month]
    /\ wall.hour \in 0..23
    /\ wall.minute \in 0..59
    /\ wall.second \in 0..60
    /\ wall.nanoseconds < NANOS_IN_SECOND

\* tz-rs unix_time: the seconds since the epoch of wall clock components read
\* as UTC, for the years 1969 to 1971, none of which is a leap year.
unix_time(wall) ==
    (((wall.year - 1970) * 365 + DaysBeforeMonth(wall.month) + wall.day - 1) * 24
        + wall.hour) * 3600 + wall.minute * 60 + wall.second

\* tz-rs find_date_time from period k on, in ascending order of instants: a
\* wall clock that fits period k is Normal there, one that the transition
\* into period k jumps over is Skipped.
RECURSIVE FoundFrom(_, _, _)
FoundFrom(utc_unix_time, tz, k) ==
    IF k > Len(tz.transitions) THEN <<>>
    ELSE LET unix == utc_unix_time - PeriodOffset(tz, k)
             begins == k = 0 \/ tz.transitions[k].at <= unix
             ends == k = Len(tz.transitions) \/ unix < tz.transitions[k + 1].at
             skipped == /\ k > 0
                        /\ utc_unix_time - PeriodOffset(tz, k - 1) >= tz.transitions[k].at
                        /\ unix < tz.transitions[k].at
             here == IF skipped THEN << [kind |-> "Skipped", unix_time |-> unix] >>
                     ELSE IF begins /\ ends THEN << [kind |-> "Normal", unix_time |-> unix] >>
                     ELSE <<>>
         IN  here \o FoundFrom(utc_unix_time, tz, k + 1)

\* DateTime::find(year, month, day, hour, minute, second, nanoseconds, tz)
DateTime_find(wall, tz) ==
    IF check_date_time_inputs(wall)
    THEN [ok |-> TRUE, list |-> FoundFrom(unix_time(wall), tz, 0)]
    ELSE [ok |-> FALSE, list |-> <<>>]

\* FoundDateTimeList::unique(): the found date time, if there is exactly one
\* and it is Normal.
unique(list) ==
    IF Len(list) = 1 /\ list[1].kind = "Normal"
    THEN [some |-> TRUE, unix_time |-> list[1].unix_time]
    ELSE [some |-> FALSE, unix_time |-> 0]

NoTime == [set |-> FALSE, unix_time |-> 0, nanoseconds |-> 0, offset |-> NoOffset]

TimeOf(unix, nanoseconds, offset) ==
    [set |-> TRUE, unix_time |-> unix, nanoseconds |-> nanoseconds, offset |-> offset]

\* Time::new: both expect() calls panic instead of returning.
Time_new(wall, offset) ==
    LET found == DateTime_find(wall, time_zone_ref(offset))
        dt == unique(found.list)
    IN  IF found.ok /\ dt.some
        THEN [ok |-> TRUE, time |-> TimeOf(dt.unix_time, wall.nanoseconds, offset)]
        ELSE [ok |-> FALSE, time |-> NoTime]

\* The UTC offset in effect in a zone at an instant.
RECURSIVE UtOffsetFrom(_, _, _)
UtOffsetFrom(tz, unix, k) ==
    IF k = 0 \/ tz.transitions[k].at <= unix THEN PeriodOffset(tz, k)
    ELSE UtOffsetFrom(tz, unix, k - 1)

UtOffsetAt(offset, unix) ==
    LET tz == time_zone_ref(offset) IN UtOffsetFrom(tz, unix, Len(tz.transitions))

(***************************************************************************)
(* The seconds of a timestamp are an i64: four limbs, the most significant *)
(* first and the only signed one. The Times of the model hold seconds that *)
(* fit 32 bits; wider seconds are inputs of with_timespec_and_offset only. *)
(***************************************************************************)
I64(n) ==
    << IF n < 0 THEN -1 ELSE 0, IF n < 0 THEN Limb - 1 ELSE 0, (n \div Limb) % Limb, n % Limb >>

I64Max == <<2^15 - 1, Limb - 1, Limb - 1, Limb - 1>>

I64Min == <<-(2^15), 0, 0, 0>>

I64Le(x, y) ==
    \/ x[1] < y[1]
    \/ x[1] = y[1] /\ x[2] < y[2]
    \/ x[1] = y[1] /\ x[2] = y[2] /\ x[3] < y[3]
    \/ x[1] = y[1] /\ x[2] = y[2] /\ x[3] = y[3] /\ x[4] <= y[4]

\* The i64 is the sign extension of 32 bits.
I64Small(x) ==
    \/ x[1] = 0 /\ x[2] = 0 /\ x[3] < 2^15
    \/ x[1] = -1 /\ x[2] = Limb - 1 /\ x[3] >= 2^15

I64Narrow(x) == (x[3] - (IF x[1] < 0 THEN Limb ELSE 0)) * Limb + x[4]

\* i64::checked_add of an i32: None on overflow.
checked_add(x, k) ==
    LET d == x[4] + (k % Limb)
        c == x[3] + ((k \div Limb) % Limb) + (d \div Limb)
        b == x[2] + (IF k < 0 THEN Limb - 1 ELSE 0) + (c \div Limb)
        a == x[1] + (IF k < 0 THEN -1 ELSE 0) + (b \div Limb)
    IN  [some |-> a \in (-(2^15))..(2^15 - 1),
         value |-> <<a, b % Limb, c % Limb, d % Limb>>]

\* A tz-rs date time holds its year in an i32: the first second of the year
\* -2147483648 (-67768100567971200) and the last second of the year
\* 2147483647 (67767976233532799), as local unix times.
MinDateTime == <<-241, 15685, 34443, 2688>>

MaxDateTime == <<240, 49821, 34443, 64895>>

\* time_zone_ref.find_local_time_type(unix_time): the UTC offset in effect
\* at an i64 instant.
find_local_time_type(offset, seconds) ==
    LET tz == time_zone_ref(offset)
    IN  IF I64Small(seconds) THEN UtOffsetAt(offset, I64Narrow(seconds))
        ELSE IF seconds[1] < 0 THEN PeriodOffset(tz, 0)
        ELSE PeriodOffset(tz, Len(tz.transitions))

\* DateTime::from_timespec(seconds, nanoseconds, time_zone_ref) is Ok: it is
\* an Err on nanoseconds that are no fraction of a second and on seconds
\* whose local date time has a year that no i32 holds.
DateTime_from_timespec(seconds, nanoseconds, offset) ==
    LET local == checked_add(seconds, find_local_time_type(offset, seconds))
    IN  /\ nanoseconds < NANOS_IN_SECOND
        /\ local.some
        /\ I64Le(MinDateTime, local.value)
        /\ I64Le(local.value, MaxDateTime)

\* Time::with_timespec_and_offset: expect() panics on the Err of
\* DateTime::from_timespec.
Time_with_timespec_and_offset(seconds, nanoseconds, offset) ==
    IF DateTime_from_timespec(seconds, nanoseconds, offset)
    THEN [ok |-> TRUE, time |-> TimeOf(I64Narrow(seconds), nanoseconds, offset)]
    ELSE [ok |-> FALSE, time |-> NoTime]

\* unix_time * 1_000_000_000 + nanoseconds as a wide integer (an i128 in the
\* code), by long multiplication on the limbs of NANOS_IN_SECOND.
WideNanos(unix, nanoseconds) ==
    LET low == (unix * (NANOS_IN_SECOND % Limb)) + (nanoseconds % Limb)
    IN  << (unix * (NANOS_IN_SECOND \div Limb)) + (nanoseconds \div Limb) + (low \div Limb),
           low % Limb >>

\* The nanoseconds of the local wall clock instead of those of the instant.
local_total_nanoseconds(t) ==
    WideNanos(t.unix_time + UtOffsetAt(t.offset, t.unix_time), t.nanoseconds)

\* self.inner.total_nanoseconds()
total_nanoseconds(t) == WideNanos(t.unix_time, t.nanoseconds)

\* Seconds rounded to the nearest second instead of truncated.
to_int_rounded(t) ==
    t.unix_time + (IF 2 * t.nanoseconds >= NANOS_IN_SECOND THEN 1 ELSE 0)

\* Time::to_int: self.inner.unix_time()
Time_to_int(t) == t.unix_time

\* A shift that starts the new Time on a whole second.
ShiftedToWholeSecond(t, k) == TimeOf(t.unix_time + k, 0, t.offset)

\* Time +/- integer seconds: the instant k seconds later, with the
\* nanoseconds and the Offset of t.
Shifted(t, k) == TimeOf(t.unix_time + k, t.nanoseconds, t.offset)

\* impl Add<i64> for Time: time + seconds
Time_add(t, k) == Shifted(t, k)

\* impl Sub<i64> for Time: time - seconds
Time_sub(t, k) == Shifted(t, -k)

\* impl Hash: what is written to the hasher, which decides the hash.
TimeHash(t) == total_nanoseconds(t)

\* impl PartialEq
TimeEq(t, u) == total_nanoseconds(t) = total_nanoseconds(u)

\* impl Ord
TimeCmp(t, u) ==
    IF WLt(total_nanoseconds(t), total_nanoseconds(u)) THEN "Less"
    ELSE IF total_nanoseconds(t) = total_nanoseconds(u) THEN "Equal"
    ELSE "Greater"

(***************************************************************************)
(* The parts of a Time, its zone name, and the round trip through ToA.     *)
(***************************************************************************)
\* The date and time of day of an instant of the years 1969 to 1971, read
\* under a UTC offset.
WallAt(unix, ut_offset, nanoseconds) ==
    LET local == unix + ut_offset
        days == local \div 86400
        secs == local % 86400
        yday == days % 365
        mon == CHOOSE m \in 1..12 :
                   DaysBeforeMonth(m) <= yday /\ yday < DaysBeforeMonth(m) + DaysInMonth[m]
    IN  [year |-> 1970 + (days \div 365), month |-> mon,
         day |-> yday - DaysBeforeMonth(mon) + 1, hour |-> secs \div 3600,
         minute |-> (secs % 3600) \div 60, second |-> secs % 60,
         nanoseconds |-> nanoseconds]

\* The accessors year(), month(), day(), hour(), minute(), second() and
\* nanoseconds(): the instant decomposed under the Offset of the Time.
parts(t) == WallAt(t.unix_time, UtOffsetAt(t.offset, t.unix_time), t.nanoseconds)

TwoDigits(n) == IF n < 10 THEN "0" \o ToString(n) ELSE ToString(n)

\* A rendering that rounds the minutes toward minus infinity.
offset_hhmm_floored(seconds) ==
    (IF seconds < 0 THEN "-" ELSE "+")
        \o TwoDigits((IF seconds < 0 THEN -((seconds \div 60) \div 60) ELSE (seconds \div 60) \div 60))
        \o TwoDigits((IF seconds < 0 THEN -(seconds \div 60) ELSE seconds \div 60) % 60)

\* The name of a fixed offset: its sign, and the hours and minutes of its
\* absolute value on two digits each.
offset_hhmm(seconds) ==
    LET minutes == (IF seconds < 0 THEN -seconds ELSE seconds) \div 60
    IN  (IF seconds < 0 THEN "-" ELSE "+")
            \o TwoDigits(minutes \div 60) \o TwoDigits(minutes % 60)

\* time_zone(): the name of the zone of a Time.
time_zone(t) ==
    CASE t.offset.kind = "utc" -> "UTC"
      [] t.offset.kind = "fixed" -> offset_hhmm(t.offset.secs)
      [] t.offset.kind = "tz" ->
             IF UtOffsetAt(t.offset, t.unix_time) = 0 THEN "STD" ELSE "DST"

\* The parts of the instant read as UTC, whatever the Offset.
to_array_utc(t) ==
    LET wall == WallAt(t.unix_time, 0, t.nanoseconds)
    IN  [sec |-> wall.second, min |-> wall.minute, hour |-> wall.hour, day |-> wall.day,
         month |-> wall.month, year |-> wall.year, zone |-> time_zone(t)]

\* to_array(): the ToA of a Time, which has no field for the nanoseconds.
to_array(t) ==
    [sec |-> parts(t).second, min |-> parts(t).minute, hour |-> parts(t).hour,
     day |-> parts(t).day, month |-> parts(t).month, year |-> parts(t).year,
     zone |-> time_zone(t)]

IsDigit(c) == c \in {"0", "1", "2", "3", "4", "5", "6", "7", "8", "9"}

DigitOf(c) == CHOOSE d \in 0..9 : ToString(d) = c

\* Offset::from(zone): a name +HHMM or -HHMM is that fixed offset, and any
\* other name of a zone is UTC.
Offset_from(zone) ==
    IF /\ Len(zone) = 5
       /\ SubSeq(zone, 1, 1) \in {"+", "-"}
       /\ \A k \in 2..5 : IsDigit(SubSeq(zone, k, k))
    THEN LET hours == 10 * DigitOf(SubSeq(zone, 2, 2)) + DigitOf(SubSeq(zone, 3, 3))
             minutes == 10 * DigitOf(SubSeq(zone, 4, 4)) + DigitOf(SubSeq(zone, 5, 5))
             sign == IF SubSeq(zone, 1, 1) = "+" THEN 1 ELSE -1
         IN  Fixed(sign * (hours * 3600 + minutes * 60))
    ELSE Utc

\* The arguments From<ToA> gives Time::new: the parts of the ToA and 0
\* nanoseconds.
WallOf(to_a) ==
    [year |-> to_a.year, month |-> to_a.month, day |-> to_a.day, hour |-> to_a.hour,
     minute |-> to_a.min, second |-> to_a.sec, nanoseconds |-> 0]

\* impl From<ToA> for Time
Time_from(to_a) == Time_new(WallOf(to_a), Offset_from(to_a.zone))

(***************************************************************************)
(* The Times that are constructed: wall clocks of 1 January 1970 and       *)
(* timestamps around the epoch, under each kind of Offset.                 *)
(***************************************************************************)
MaxHour == 7

MaxSeconds == 1

Offsets == {Utc, Fixed(3600), Tz}

Wall(hour, minute, nanoseconds) ==
    [year |-> 1970, month |-> 1, day |-> 1, hour |-> hour, minute |-> minute,
     second |-> 0, nanoseconds |-> nanoseconds]

NoWall == Wall(0, 0, 0)

\* The hour 24 is no hour of a day.
Walls == { Wall(h, m, 500) : h \in (0..MaxHour) \cup {24}, m \in {0, 30} }

Nanoseconds == {0, 500, NANOS_IN_SECOND - 1, NANOS_IN_SECOND}

\* Seconds around the epoch, and the two ends of the i64.
Seconds == { I64(s) : s \in (-MaxSeconds)..MaxSeconds } \cup {I64Min, I64Max}

\* The seconds added to and subtracted from a Time.
Shifts == {-1, 1, 60 * 60}

Call(op, wall, seconds, nanoseconds, offset, result) ==
    [op |-> op, wall |-> wall, seconds |-> seconds, nanoseconds |-> nanoseconds,
     offset |-> offset, result |-> result]

NoCall == Call("none", NoWall, I64(0), 0, NoOffset, "none")

Alive == last.result # "panic"

Init ==
    /\ \E n \in 0..MaxLen : \E at \in EditPositions(n) : \E to \in [at -> Values] :
           args = Edited(TestArgs(n), at, to)
    /\ given = args
    /\ pc = "call"
    /\ outcome = NotCalled
    /\ converted = <<>>
    /\ time = NoTime
    /\ other = NoTime
    /\ last = NoCall

\* interp.try_convert_mut(args.as_mut_slice())
Normalize ==
    /\ pc = "call"
    /\ LET r == try_convert_mut(args)
       IN  /\ outcome' = r.outcome
           /\ args' = r.buffer
           /\ converted' = r.converted
    /\ given' = args
    /\ pc' = "done"
    /\ UNCHANGED timeVars

Next == Normalize

Spec == Init /\ [][Next]_vars

TimeInit ==
    /\ args = <<>>
    /\ given = <<>>
    /\ pc = "idle"
    /\ outcome = NotCalled
    /\ converted = <<>>
    /\ time = NoTime
    /\ other = NoTime
    /\ last = NoCall

\* Time::new(year, month, day, hour, minute, second, nanoseconds, offset)
New(wall, offset) ==
    /\ Alive
    /\ LET r == Time_new(wall, offset)
       IN  IF r.ok
           THEN /\ time' = r.time
                /\ other' = time
                /\ last' = Call("new", wall, I64(0), 0, offset, "ok")
           ELSE /\ time' = NoTime
                /\ other' = NoTime
                /\ last' = Call("new", wall, I64(0), 0, offset, "panic")
    /\ UNCHANGED argVars

\* Time::with_timespec_and_offset(seconds, nanoseconds, offset)
WithTimespec(seconds, nanoseconds, offset) ==
    /\ Alive
    /\ LET r == Time_with_timespec_and_offset(seconds, nanoseconds, offset)
       IN  IF r.ok
           THEN /\ time' = r.time
                /\ other' = time
                /\ last' = Call("with_timespec_and_offset", NoWall, seconds, nanoseconds, offset, "ok")
           ELSE /\ time' = NoTime
                /\ other' = NoTime
                /\ last' = Call("with_timespec_and_offset", NoWall, seconds, nanoseconds, offset, "panic")
    /\ UNCHANGED argVars

(***************************************************************************)
(* The names of the fixed offsets: time_zone() on the Time that the test   *)
(* time_zone_fixed_offset makes of each offset of a range.                 *)
(***************************************************************************)
MaxOffset == 7320

\* fn time_with_fixed_offset(offset: i32) -> Time
time_with_fixed_offset(offset) ==
    Time_with_timespec_and_offset(I64(0), 0, Fixed(offset)).time

ZoneInit ==
    /\ args = <<>>
    /\ given = <<>>
    /\ pc = "idle"
    /\ outcome = NotCalled
    /\ converted = <<>>
    /\ \E offset \in (-MaxOffset)..MaxOffset : time = time_with_fixed_offset(offset)
    /\ other = NoTime
    /\ last = NoCall

\* time.time_zone()
TimeZone ==
    /\ last.op = "none"
    /\ time.set
    /\ last' = Call("time_zone", NoWall, I64(0), 0, time.offset, time_zone(time))
    /\ UNCHANGED <<time, other>>
    /\ UNCHANGED argVars

ZoneNext == TimeZone

SpecZone == ZoneInit /\ [][ZoneNext]_vars

\* The Times that make the operands of the model: those a constructor made.
Constructed == last.op \in {"new", "with_timespec_and_offset"}

\* time + k: a new Time; the operand stays as it is.
Add(k) ==
    /\ Alive
    /\ Constructed
    /\ time.set
    /\ time' = Time_add(time, k)
    /\ other' = time
    /\ last' = Call("add", NoWall, I64(k), 0, time.offset, "ok")
    /\ UNCHANGED argVars

\* time - k: a new Time; the operand stays as it is.
Sub(k) ==
    /\ Alive
    /\ Constructed
    /\ time.set
    /\ time' = Time_sub(time, k)
    /\ other' = time
    /\ last' = Call("sub", NoWall, I64(k), 0, time.offset, "ok")
    /\ UNCHANGED argVars

\* Time::from(time.to_array()): a panic of Time::new ends the caller.
RoundTrip ==
    /\ Alive
    /\ last.op \in {"new", "with_timespec_and_offset", "add", "sub"}
    /\ time.set
    /\ LET to_a == to_array(time)
           r == Time_from(to_a)
       IN  IF r.ok
           THEN /\ time' = r.time
                /\ other' = time
                /\ last' = Call("from", WallOf(to_a), I64(0), 0, Offset_from(to_a.zone), "ok")
           ELSE /\ time' = NoTime
                /\ other' = NoTime
                /\ last' = Call("from", WallOf(to_a), I64(0), 0, Offset_from(to_a.zone), "panic")
    /\ UNCHANGED argVars

TimeNext ==
    \/ \E wall \in Walls, offset \in Offsets : New(wall, offset)
    \/ \E seconds \in Seconds, nanoseconds \in Nanoseconds, offset \in Offsets :
           WithTimespec(seconds, nanoseconds, offset)
    \/ \E k \in Shifts : Add(k)
    \/ \E k \in Shifts : Sub(k)
    \/ RoundTrip

SpecTime == TimeInit /\ [][TimeNext]_vars

(***************************************************************************)
(* Properties of the normalizer.                                           *)
(***************************************************************************)
Done == pc = "done"

IsInteger(value) == value.t = "Integer"

\* The list the fields are read from: the six first elements in reverse
\* order for the 10 argument form, the list itself otherwise.
FieldList(list) ==
    IF Len(list) = 10
    THEN <<list[6], list[5], list[4], list[3], list[2], list[1]>>
    ELSE list

\* The range of the field at position i, as the specification states it.
InRange(i, w) ==
    CASE i = 0 -> WLe(I32Min, w) /\ WLe(w, I32Max)
      [] i = 1 -> WLe(W(1), w) /\ WLe(w, W(12))
      [] i = 2 -> WLe(W(1), w) /\ WLe(w, W(31))
      [] i \in {3, 4, 5} -> WLe(W(0), w) /\ WLe(w, W(59))
      [] i = 6 -> WLe(W(0), w) /\ WLe(w, W(999999))
      [] OTHER -> TRUE

RangeMessage(i) ==
    CASE i = 0 -> "year out of range"
      [] i = 1 -> "mon out of range"
      [] i = 2 -> "mday out of range"
      [] i = 3 -> "hour out of range"
      [] i = 4 -> "min out of range"
      [] i = 5 -> "sec out of range"
      [] i = 6 -> "subsecx out of range"
      [] OTHER -> ""

FieldAt(result, i) ==
    CASE i = 0 -> result.year
      [] i = 1 -> result.month
      [] i = 2 -> result.day
      [] i = 3 -> result.hour
      [] i = 4 -> result.minute
      [] i = 5 -> result.second
      [] i = 6 -> result.nanoseconds

DefaultAt(i) ==
    CASE i = 0 -> 0
      [] i \in {1, 2} -> 1
      [] i \in {3, 4, 5, 6} -> 0

\* Position i of the list holds an integer in its field's range (position 7
\* holds no field: anything is acceptable there).
Acceptable(list, i) ==
    i >= 7 \/ (IsInteger(list[i + 1]) /\ InRange(i, list[i + 1].v))

AcceptableBefore(list, i) == \A j \in 0..(i - 1) : Acceptable(list, j)

RangeError(i) == Err(ArgumentError(RangeMessage(i)))

\* C4: a list of 0, 9 or 11 arguments fails with the ArgumentError "wrong
\* number of arguments (given N, expected 1..8)", N the length of the list,
\* and no element of it is converted.
C4_CountErrorFirst ==
    Done /\ Len(given) \in {0, 9, 11} =>
        /\ outcome.kind = "Err"
        /\ outcome.error.name = "ArgumentError"
        /\ outcome.error.message =
               CASE Len(given) = 0 -> "wrong number of arguments (given 0, expected 1..8)"
                 [] Len(given) = 9 -> "wrong number of arguments (given 9, expected 1..8)"
                 [] Len(given) = 11 -> "wrong number of arguments (given 11, expected 1..8)"
        /\ converted = <<>>

\* A 9 argument list whose year is not an integer was rejected for its count.
C4_Witness ==
    /\ Done
    /\ Len(given) = 9
    /\ given[1] = Str
    /\ outcome.error.message = "wrong number of arguments (given 9, expected 1..8)"

\* C5: a list of 12 or more arguments is rejected with the message "wrong
\* number of arguments (given n, expected 1..8)".
C5_LongListsRejected ==
    Done /\ Len(given) >= 12 =>
        outcome = Err(ArgumentError(
            "wrong number of arguments (given " \o ToString(Len(given)) \o ", expected 1..8)"))

\* C6: a 10 argument list a gives what the 6 argument list
\* (a[5], a[4], a[3], a[2], a[1], a[0]) gives, with nanoseconds 0, and
\* a[6]..a[9] are never converted and cause no error.
C6_TenArgs ==
    Done /\ Len(given) = 10 =>
        LET six == <<given[6], given[5], given[4], given[3], given[2], given[1]>>
        IN  /\ outcome = try_convert_mut(six).outcome
            /\ \A k \in 1..Len(converted) : converted[k] <= 5
            /\ (\A i \in 0..5 : Acceptable(six, i)) => outcome.kind = "Ok"
            /\ outcome.kind = "Ok" =>
                   /\ \A i \in 0..5 : FieldAt(outcome.args, i) = Narrow(six[i + 1].v)
                   /\ outcome.args.nanoseconds = 0

\* A 10 argument list with a String at position 6 was normalized.
C6_Witness ==
    /\ Done
    /\ Len(given) = 10
    /\ given[7] = Str
    /\ outcome.kind = "Ok"
    /\ outcome.args.year = 2022
    /\ outcome.args.second = 1

\* C7: an integer at a position 0..5 that is reached is accepted exactly when
\* it is in its field's range, and is then stored unchanged; otherwise the
\* call fails with that field's "... out of range" message.
C7_FieldRanges ==
    Done /\ Len(given) \in (1..8) \cup {10} =>
        LET list == FieldList(given)
        IN  \A i \in 0..5 :
                (i < Len(list) /\ IsInteger(list[i + 1]) /\ AcceptableBefore(list, i)) =>
                    IF InRange(i, list[i + 1].v)
                    THEN /\ outcome # RangeError(i)
                         /\ outcome.kind = "Ok" =>
                                FieldAt(outcome.args, i) = Narrow(list[i + 1].v)
                         /\ (\A j \in 0..(Len(list) - 1) : Acceptable(list, j)) =>
                                outcome.kind = "Ok"
                    ELSE outcome = RangeError(i)

\* The month 257, which is 1 modulo 2^8, was rejected.
C7_Witness ==
    /\ Done
    /\ Len(given) >= 2
    /\ given[2] = Integer(257)
    /\ outcome = Err(ArgumentError("mon out of range"))

\* C8: an integer m at position 6 that is reached is accepted exactly when
\* 0 <= m <= 999999, and then nanoseconds = m * 1000; otherwise the call
\* fails with "subsecx out of range".
C8_Micros ==
    Done /\ Len(given) \in {7, 8} /\ IsInteger(given[7]) /\ AcceptableBefore(given, 6) =>
        IF WLe(W(0), given[7].v) /\ WLe(given[7].v, W(999999))
        THEN /\ outcome.kind = "Ok"
             /\ outcome.args.nanoseconds = Narrow(given[7].v) * 1000
        ELSE outcome = Err(ArgumentError("subsecx out of range"))

\* 999999 microseconds became 999999000 nanoseconds.
C8_Witness ==
    /\ Done
    /\ Len(given) = 7
    /\ given[7] = Integer(999999)
    /\ outcome.kind = "Ok"
    /\ outcome.args.nanoseconds = 999999000

\* C9 as stated: after a successful call on 1..8 arguments, every field at a
\* position >= n has its default and every field at a position < n holds the
\* value supplied at that position.
C9_FieldsHoldSupplied ==
    Done /\ Len(given) \in 1..8 /\ outcome.kind = "Ok" =>
        \A i \in 0..6 :
            FieldAt(outcome.args, i) =
                IF i >= Len(given) THEN DefaultAt(i) ELSE Narrow(given[i + 1].v)

\* C9 amended: as above for the positions 0..5; nanoseconds (position 6) is
\* 1000 times the microseconds supplied at position 6.
C9_DefaultsAndSupplied ==
    Done /\ Len(given) \in 1..8 /\ outcome.kind = "Ok" =>
        \A i \in 0..6 :
            FieldAt(outcome.args, i) =
                IF i >= Len(given) THEN DefaultAt(i)
                ELSE IF i = 6 THEN Narrow(given[7].v) * 1000
                ELSE Narrow(given[i + 1].v)

\* A 2 argument list was normalized: year and month supplied, the rest default.
C9_Witness ==
    /\ Done
    /\ Len(given) = 2
    /\ outcome.kind = "Ok"
    /\ outcome.args.month = 12
    /\ outcome.args.day = 1

\* C10: an 8 argument list gives what its 7 argument prefix gives, and
\* position 7 is never converted.
C10_EighthIgnored ==
    Done /\ Len(given) = 8 =>
        /\ outcome = try_convert_mut(SubSeq(given, 1, 7)).outcome
        /\ \A k \in 1..Len(converted) : converted[k] # 7
        /\ (\A i \in 0..6 : Acceptable(given, i)) => outcome.kind = "Ok"

\* An 8 argument list ending in a String was normalized.
C10_Witness ==
    /\ Done
    /\ Len(given) = 8
    /\ given[8] = Str
    /\ outcome.kind = "Ok"
    /\ outcome.args.nanoseconds = 7000

\* Some position of the list holds no integer of its field's range.
HasFailing(list) == \E i \in 0..(Len(list) - 1) : ~Acceptable(list, i)

\* The lowest such position.
FirstFailing(list) ==
    CHOOSE i \in 0..(Len(list) - 1) : ~Acceptable(list, i) /\ AcceptableBefore(list, i)

\* C17: when some position fails, the call returns the error of the lowest
\* failing position i: the TypeError if its element is no integer, its
\* field's range error (an ArgumentError) otherwise; exactly the positions
\* 0..i were converted, in that order; and the elements after position i
\* have no part in the outcome.
C17_FirstFailure ==
    LET list == FieldList(given)
    IN  (Done /\ Len(given) \notin {0, 9, 11} /\ HasFailing(list)) =>
            LET i == FirstFailing(list)
            IN  /\ outcome =
                       IF IsInteger(list[i + 1]) THEN RangeError(i) ELSE Err(TypeError)
                /\ outcome.error.name =
                       IF IsInteger(list[i + 1]) THEN "ArgumentError" ELSE "TypeError"
                /\ converted = [k \in 1..(i + 1) |-> k - 1]
                /\ outcome = try_convert_mut(SubSeq(list, 1, i + 1)).outcome

\* A month out of range followed by a day that is no integer: the error is
\* the month's, and the day was not converted.
C17_Witness ==
    /\ Done
    /\ Len(given) = 8
    /\ given[2] = Integer(13)
    /\ given[3] = Str
    /\ outcome = Err(ArgumentError("mon out of range"))
    /\ converted = <<0, 1>>

\* C18: the fields of every Args returned are in their ranges (month 1..12,
\* day 1..31, hour, minute and second 0..59, nanoseconds a multiple of 1000
\* in 0..999_999_000), and a list of 1..8 or 10 arguments whose fields are
\* each in range is accepted, whatever the other fields are.
C18_FieldsInRange ==
    /\ (Done /\ outcome.kind = "Ok") =>
           /\ outcome.args.month \in 1..12
           /\ outcome.args.day \in 1..31
           /\ outcome.args.hour \in 0..59
           /\ outcome.args.minute \in 0..59
           /\ outcome.args.second \in 0..59
           /\ outcome.args.nanoseconds \in 0..999999000
           /\ outcome.args.nanoseconds % 1000 = 0
    /\ (/\ Done
        /\ Len(given) \in (1..8) \cup {10}
        /\ \A i \in 0..(Len(FieldList(given)) - 1) : Acceptable(FieldList(given), i)) =>
           outcome.kind = "Ok"

\* The 31st of February at 59 o'clock was accepted.
C18_Witness ==
    /\ Done
    /\ Len(given) = 8
    /\ given[3] = Integer(31)
    /\ given[4] = Integer(59)
    /\ outcome.kind = "Ok"
    /\ outcome.args.month = 2
    /\ outcome.args.day = 31
    /\ outcome.args.hour = 59

\* C19: no call on a list that passes the count check reaches the catch-all
\* arm of the loop.
C19_CatchAllUnreachable ==
    Done /\ ~CountRejected(Len(given)) => outcome.kind # "Panic"

\* C20: the call leaves a buffer of 0..9 or 11 elements as it was; of a
\* buffer of 10 elements it leaves the elements 0..5 in reverse order and
\* the elements 6..9 as they were, whether it returns Ok or an error.
C20_BufferEffect ==
    /\ (Done /\ Len(given) \in (0..9) \cup {11}) => args = given
    /\ (Done /\ Len(given) = 10) =>
           /\ outcome.kind \in {"Ok", "Err"}
           /\ args = <<given[6], given[5], given[4], given[3], given[2], given[1],
                       given[7], given[8], given[9], given[10]>>

\* A 10 argument call failed on its month, and left the buffer reordered.
C20_Witness ==
    /\ Done
    /\ Len(given) = 10
    /\ given[5] = Integer(13)
    /\ outcome = Err(ArgumentError("mon out of range"))
    /\ args[1] = Integer(2022)
    /\ args[2] = Integer(13)
    /\ args[6] = given[1]
    /\ args[7] = Nil
    /\ args # given

(***************************************************************************)
(* Properties of the Time value.                                           *)
(***************************************************************************)
\* The UTC offsets a zone ever has.
ZoneOffsets(offset) ==
    LET tz == time_zone_ref(offset)
    IN  { PeriodOffset(tz, k) : k \in 0..Len(tz.transitions) }

\* The instants whose wall clock under the offset reads as the components.
Candidates(wall, offset) ==
    { unix \in { unix_time(wall) - o : o \in ZoneOffsets(offset) } :
          unix + UtOffsetAt(offset, unix) = unix_time(wall) }

Earliest(instants) == CHOOSE unix \in instants : \A u \in instants : unix <= u

\* C1: Time::new on wall clock components that more than one instant matches
\* returns the Time of the earliest of them.
C1_EarliestOfAmbiguous ==
    (/\ last.op = "new"
     /\ check_date_time_inputs(last.wall)
     /\ Cardinality(Candidates(last.wall, last.offset)) > 1) =>
        /\ last.result = "ok"
        /\ time.set
        /\ time.unix_time = Earliest(Candidates(last.wall, last.offset))
        /\ time.nanoseconds = last.wall.nanoseconds
        /\ time.offset = last.offset

\* C2: Time::new on wall clock components that no instant matches ends with
\* an error value returned to the caller (not a panic), and with no Time.
C2_NonexistentIsError ==
    (/\ last.op = "new"
     /\ check_date_time_inputs(last.wall)
     /\ Candidates(last.wall, last.offset) = {}) =>
        /\ last.result = "error"
        /\ ~time.set

SameInstant(t, u) == t.unix_time = u.unix_time /\ t.nanoseconds = u.nanoseconds

\* The lexicographic order on (seconds, nanoseconds).
LexCmp(t, u) ==
    IF t.unix_time < u.unix_time \/ (t.unix_time = u.unix_time /\ t.nanoseconds < u.nanoseconds)
    THEN "Less"
    ELSE IF SameInstant(t, u) THEN "Equal"
    ELSE "Greater"

\* C3: ==, cmp and the hash of two Times depend on their seconds and
\* nanoseconds only, never on their Offsets: Times of the same instant are
\* equal, compare Equal and hash alike; cmp is the lexicographic order on
\* (seconds, nanoseconds); and == holds exactly when cmp is Equal.
C3_InstantOnly ==
    time.set /\ other.set =>
        /\ SameInstant(time, other) =>
               /\ TimeEq(time, other)
               /\ TimeCmp(time, other) = "Equal"
               /\ TimeHash(time) = TimeHash(other)
        /\ TimeCmp(time, other) = LexCmp(time, other)
        /\ TimeCmp(other, time) = LexCmp(other, time)
        /\ TimeEq(time, other) <=> TimeCmp(time, other) = "Equal"

\* Two Times of one instant, one under UTC and one under another Offset,
\* are equal.
C3_Witness ==
    /\ time.set
    /\ other.set
    /\ SameInstant(time, other)
    /\ time.offset = Utc
    /\ other.offset # Utc
    /\ TimeEq(time, other)

\* C11: with_timespec_and_offset succeeds for every i64 seconds, every
\* nanoseconds in 0..=999_999_999 and every Offset, and the Time it returns
\* holds those seconds and nanoseconds and that Offset: it fails on nothing
\* but nanoseconds outside 0..=999_999_999.
C11_TimespecAlwaysSucceeds ==
    (last.op = "with_timespec_and_offset" /\ last.nanoseconds \in 0..999999999) =>
        /\ last.result = "ok"
        /\ time.set
        /\ I64(time.unix_time) = last.seconds
        /\ time.nanoseconds = last.nanoseconds
        /\ time.offset = last.offset

\* C12: to_int of a Time built by with_timespec_and_offset(s, n, o) is s,
\* whatever n and o are, and to_int of the Time of 1970-01-01 00:01:00 UTC
\* is 60.
C12_ToIntIsSeconds ==
    /\ (last.op = "with_timespec_and_offset" /\ last.result = "ok") =>
           /\ time.set
           /\ I64(Time_to_int(time)) = last.seconds
    /\ Time_new(Wall(0, 1, 0), Utc).ok
    /\ Time_to_int(Time_new(Wall(0, 1, 0), Utc).time) = 60

\* One second before the epoch, with the most nanoseconds a second has,
\* under a fixed offset: to_int is -1.
C12_Witness ==
    /\ last.op = "with_timespec_and_offset"
    /\ last.result = "ok"
    /\ last.seconds = I64(-1)
    /\ last.nanoseconds = NANOS_IN_SECOND - 1
    /\ last.offset = Fixed(3600)
    /\ Time_to_int(time) = -1

\* C13: a step t + k (t - k) makes a new Time with to_int = t.to_int() + k
\* (t.to_int() - k), the nanoseconds of t and the Offset of t, and leaves t
\* as it was.
C13_Arithmetic ==
    [][/\ last'.op = "add" =>
              /\ time'.set
              /\ Time_to_int(time') = Time_to_int(time) + I64Narrow(last'.seconds)
              /\ time'.nanoseconds = time.nanoseconds
              /\ time'.offset = time.offset
              /\ other' = time
       /\ last'.op = "sub" =>
              /\ time'.set
              /\ Time_to_int(time') = Time_to_int(time) - I64Narrow(last'.seconds)
              /\ time'.nanoseconds = time.nanoseconds
              /\ time'.offset = time.offset
              /\ other' = time]_vars

\* One hour was subtracted from a zoned Time with 999_999_999 nanoseconds.
C13_Witness ==
    /\ last.op = "sub"
    /\ last.seconds = I64(3600)
    /\ other.set
    /\ other.offset = Tz
    /\ other.nanoseconds = NANOS_IN_SECOND - 1
    /\ time.nanoseconds = NANOS_IN_SECOND - 1
    /\ time.offset = Tz
    /\ Time_to_int(time) = Time_to_int(other) - 3600

C15_FixedNeverAmbiguous ==
    (/\ last.op \in {"new", "from"}
     /\ last.offset.kind \in {"utc", "fixed"}
     /\ check_date_time_inputs(last.wall)) =>
        /\ Cardinality(Candidates(last.wall, last.offset)) = 1
        /\ DateTime_find(last.wall, time_zone_ref(last.offset)).list =
               << [kind |-> "Normal", unix_time |-> unix_time(last.wall) - last.offset.secs] >>
        /\ last.result = "ok"
        /\ time.set
        /\ time.unix_time = unix_time(last.wall) - last.offset.secs
        /\ time.offset = last.offset

\* 02:00, which the zone with daylight saving time skips, resolved under the
\* fixed offset of one hour.
C15_Witness ==
    /\ last.op = "new"
    /\ last.offset = Fixed(3600)
    /\ last.wall.hour = 2
    /\ last.wall.minute = 0
    /\ Time_new(last.wall, Tz).ok = FALSE
    /\ last.result = "ok"
    /\ time.unix_time = 3600

\* C16: the zone of a Time with a Fixed(s) offset is five characters: the
\* sign of s, then the hours and the minutes of |s| on two digits each, the
\* seconds below a minute dropped; -7320 gives "-0202", 0 and 59 give "+0000".
C16_FixedZoneName ==
    (last.op = "time_zone" /\ time.offset.kind = "fixed") =>
        LET s == time.offset.secs
            zone == last.result
            minutes == (IF s < 0 THEN -s ELSE s) \div 60
        IN  /\ Len(zone) = 5
            /\ SubSeq(zone, 1, 1) = (IF s < 0 THEN "-" ELSE "+")
            /\ \A k \in 2..5 : IsDigit(SubSeq(zone, k, k))
            /\ 10 * DigitOf(SubSeq(zone, 2, 2)) + DigitOf(SubSeq(zone, 3, 3)) = minutes \div 60
            /\ 10 * DigitOf(SubSeq(zone, 4, 4)) + DigitOf(SubSeq(zone, 5, 5)) = minutes % 60
            /\ s = -7320 => zone = "-0202"
            /\ s \in {0, 59} => zone = "+0000"

\* The offset of -7320 seconds was rendered "-0202".
C16_Witness ==
    /\ last.op = "time_zone"
    /\ time.offset = Fixed(-7320)
    /\ last.result = "-0202"

====
